---- MODULE Spec2Model ----
(***************************************************************************)
(* Model of the three Tauri commands of pdf-editor/src-tauri/src/main.rs:  *)
(* load_pdf, save_pdf and merge_pdfs, over an abstract file system whose   *)
(* files are PDF object stores.  The lopdf calls the commands make         *)
(* (Document::load, get_pages, get_object, new_object_id, objects.insert,  *)
(* save) are modelled by what they do to the object store.                 *)
(***************************************************************************)
EXTENDS Integers, Sequences, FiniteSets, TLC

VARIABLES files, req, resp

vars == <<files, req, resp>>

(***************************************************************************)
(* Bounds of the explored inputs.                                          *)
(***************************************************************************)
MaxOrderLen == 2
MaxPageNum == 3
MaxPaths == 2

(***************************************************************************)
(* Objects.  Every object is a record with the dictionary keys the         *)
(* commands and the page-tree walk read.  An absent key is the empty       *)
(* sequence (MediaBox, Rotate) or the id 0 (references).  src is not a PDF *)
(* key: it tags the file the object value was parsed from.                 *)
(***************************************************************************)
ObjInteger(n) == [kind |-> "Integer", val |-> n]
ObjReal(n) == [kind |-> "Real", val |-> n]
ObjName == [kind |-> "Name", val |-> 0]

Box(llx, lly, urx, ury) == <<ObjInteger(llx), ObjInteger(lly), ObjInteger(urx), ObjInteger(ury)>>

Obj(type, src) ==
  [Type |-> type, src |-> src, Pages |-> 0, Kids |-> <<>>, Count |-> 0,
   Parent |-> 0, MediaBox |-> <<>>, Rotate |-> <<>>, Contents |-> 0]

Catalog(src, pages) == [Obj("Catalog", src) EXCEPT !.Pages = pages]

PagesNode(src, parent, kids, count, box, rot) ==
  [Obj("Pages", src) EXCEPT !.Parent = parent, !.Kids = kids, !.Count = count,
                            !.MediaBox = box, !.Rotate = rot]

PageLeaf(src, parent, box, rot, contents) ==
  [Obj("Page", src) EXCEPT !.Parent = parent, !.MediaBox = box,
                           !.Rotate = rot, !.Contents = contents]

NoFile == [exists |-> FALSE]

File(objects, root, info, size) ==
  [exists |-> TRUE, objects |-> objects,
   trailer |-> [Root |-> root, Info |-> info, Size |-> size]]

(***************************************************************************)
(* The input files.  a.pdf: a flat tree, one leaf inheriting MediaBox and  *)
(* one overriding it.  b.pdf: a nested tree with inherited MediaBox and    *)
(* Rotate and a shared content stream.  m.pdf: leaves whose own MediaBox   *)
(* is malformed.  c.pdf does not exist.                                    *)
(***************************************************************************)
DocA ==
  File(1 :> Catalog("a", 2)
    @@ 2 :> PagesNode("a", 0, <<3, 4>>, 2, Box(0, 0, 612, 792), <<>>)
    @@ 3 :> PageLeaf("a", 2, <<>>, <<90>>, 5)
    @@ 4 :> PageLeaf("a", 2, Box(0, 0, 300, 300), <<>>, 6)
    @@ 5 :> Obj("Stream", "a")
    @@ 6 :> Obj("Stream", "a")
    @@ 7 :> Obj("Info", "a"),
    1, 7, 8)

DocB ==
  File(1 :> Catalog("b", 2)
    @@ 2 :> PagesNode("b", 0, <<3, 4>>, 3, <<>>, <<>>)
    @@ 3 :> PageLeaf("b", 2, Box(0, 0, 200, 100), <<180>>, 7)
    @@ 4 :> PagesNode("b", 2, <<5, 6>>, 2, Box(0, 0, 400, 500), <<270>>)
    @@ 5 :> PageLeaf("b", 4, <<>>, <<>>, 7)
    @@ 6 :> PageLeaf("b", 4, <<>>, <<>>, 8)
    @@ 7 :> Obj("Stream", "b")
    @@ 8 :> Obj("Stream", "b"),
    1, 0, 9)

DocM ==
  File(1 :> Catalog("m", 2)
    @@ 2 :> PagesNode("m", 0, <<3, 4, 5, 6>>, 4, <<>>, <<>>)
    @@ 3 :> PageLeaf("m", 2, Box(100, 0, 0, 200), <<>>, 7)
    @@ 4 :> PageLeaf("m", 2, <<ObjInteger(0), ObjInteger(0), ObjName, ObjInteger(792)>>, <<>>, 7)
    @@ 5 :> PageLeaf("m", 2, <<ObjInteger(0), ObjInteger(0), ObjReal(612), ObjReal(792)>>, <<>>, 7)
    @@ 6 :> PageLeaf("m", 2, <<>>, <<>>, 7)
    @@ 7 :> Obj("Stream", "m"),
    1, 0, 8)

\* SourcePaths are the files save_pdf and merge_pdfs are invoked on; m.pdf
\* differs from the others only in what get_page_dimensions reads, so it is
\* an input of load_pdf alone.
SourcePaths == {"a", "b", "c"}
OutputPath == "out"
AllPaths == SourcePaths \cup {"m", OutputPath}

InitFiles ==
  [p \in AllPaths |->
     CASE p = "a" -> DocA
       [] p = "b" -> DocB
       [] p = "m" -> DocM
       [] OTHER -> NoFile]

(***************************************************************************)
(* lopdf.  A Document is the object store, the trailer and max_id.         *)
(***************************************************************************)
Ok(v) == [ok |-> TRUE, err |-> "", value |-> v]
Err(e) == [ok |-> FALSE, err |-> e, value |-> <<>>]

\* Document::load: fails on a missing file; max_id is the trailer's Size - 1.
DocumentLoad(fs, path) ==
  IF fs[path].exists
    THEN Ok([objects |-> fs[path].objects,
             trailer |-> fs[path].trailer,
             max_id |-> fs[path].trailer.Size - 1])
    ELSE Err("No such file or directory")

\* Document::with_version: an empty store, an empty trailer, max_id 0.
DocumentWithVersion ==
  [objects |-> <<>>, trailer |-> [Root |-> 0, Info |-> 0, Size |-> 0], max_id |-> 0]

\* Document::save: every object of the store, and the trailer with Size = max_id + 1.
DocumentSave(doc) ==
  [exists |-> TRUE, objects |-> doc.objects,
   trailer |-> [doc.trailer EXCEPT !.Size = doc.max_id + 1]]

HasObject(doc, id) == id \in DOMAIN doc.objects

RECURSIVE PagesUnder(_, _, _)
\* The page-tree walk of get_pages below node id: depth first, left to right;
\* a kid that is missing or neither Page nor Pages is skipped.
PagesUnder(doc, id, fuel) ==
  LET kids == doc.objects[id].Kids
      Walk[i \in 0..Len(kids)] ==
        IF i = 0 THEN <<>>
        ELSE LET k == kids[i] IN
             Walk[i - 1] \o
               (IF ~HasObject(doc, k) THEN <<>>
                ELSE IF doc.objects[k].Type = "Page" THEN <<k>>
                ELSE IF doc.objects[k].Type = "Pages" /\ fuel > 0
                  THEN PagesUnder(doc, k, fuel - 1)
                ELSE <<>>)
  IN Walk[Len(kids)]

\* Document::get_pages: page number (1-based, the sequence index) -> object id.
\* No catalog, or no Pages entry in it, gives no pages.
get_pages(doc) ==
  LET root == doc.trailer.Root IN
  IF ~HasObject(doc, root) THEN <<>>
  ELSE LET top == doc.objects[root].Pages IN
       IF ~HasObject(doc, top) THEN <<>>
       ELSE PagesUnder(doc, top, Cardinality(DOMAIN doc.objects))

\* Document::new_object_id: max_id + 1.
new_object_id(doc) == doc.max_id + 1

\* new_object_id followed by objects.insert(new_id, obj).
InsertNew(doc, obj) ==
  [doc EXCEPT !.max_id = new_object_id(doc),
              !.objects = (new_object_id(doc) :> obj) @@ doc.objects]

(***************************************************************************)
(* load_pdf and get_page_dimensions.                                       *)
(***************************************************************************)
DefaultWidth == 595
DefaultHeight == 842

\* Object::as_i64().unwrap_or(d): the value of an Integer, d for anything else.
AsI64Or(c, d) == IF c.kind = "Integer" THEN c.val ELSE d

get_page_dimensions(doc, page_num) ==
  LET pages == get_pages(doc) IN
  IF page_num \notin DOMAIN pages THEN Err("Page not found")
  ELSE IF ~HasObject(doc, pages[page_num]) THEN Err("Object not found")
  ELSE LET media_box == doc.objects[pages[page_num]].MediaBox IN
       IF Len(media_box) >= 4
         THEN Ok([width |-> AsI64Or(media_box[3], DefaultWidth) - AsI64Or(media_box[1], 0),
                  height |-> AsI64Or(media_box[4], DefaultHeight) - AsI64Or(media_box[2], 0)])
         ELSE Ok([width |-> DefaultWidth, height |-> DefaultHeight])

generate_thumbnail_placeholder(page_num) == <<"data:image/svg+xml;base64", page_num>>

PdfPage(doc, page_number) ==
  LET d == get_page_dimensions(doc, page_number).value IN
  [page_number |-> page_number, width |-> d.width, height |-> d.height,
   rotation |-> 0, thumbnail |-> generate_thumbnail_placeholder(page_number)]

load_pdf(fs, path) ==
  LET loaded == DocumentLoad(fs, path) IN
  IF ~loaded.ok THEN Err(loaded.err)
  ELSE LET doc == loaded.value
           n == Len(get_pages(doc))
       IN IF \E i \in 1..n : ~get_page_dimensions(doc, i).ok
            THEN Err("Page not found")
            ELSE Ok([path |-> path, page_count |-> n,
                     pages |-> [i \in 1..n |-> PdfPage(doc, i)]])

(***************************************************************************)
(* save_pdf.                                                               *)
(***************************************************************************)
\* Document::get_object.
get_object(doc, id) ==
  IF HasObject(doc, id) THEN Ok(doc.objects[id]) ELSE Err("Object not found")

\* The metadata copy: the trailer's Info entry, when the source has one.
CopyInfo(doc, new_doc) ==
  IF doc.trailer.Info # 0
    THEN [new_doc EXCEPT !.trailer.Info = doc.trailer.Info]
    ELSE new_doc

\* The rotation override of one cloned page dictionary.
ApplyRotation(page_dict, page_num, rotations) ==
  IF page_num \in DOMAIN rotations /\ rotations[page_num] # 0
    THEN [page_dict EXCEPT !.Rotate = <<rotations[page_num]>>]
    ELSE page_dict

\* SavePage without the deleted_pages test of its first branch.
SavePageIgnoringDeleted(doc, acc, page_num, rotations, deleted_pages) ==
  IF ~acc.ok THEN acc
  ELSE LET pages == get_pages(doc) IN
       IF page_num \notin DOMAIN pages THEN acc
       ELSE Ok(InsertNew(acc.value,
                         [doc.objects[pages[page_num]] EXCEPT !.Rotate =
                            IF page_num \in DOMAIN rotations /\ rotations[page_num] # 0
                              THEN <<rotations[page_num]>> ELSE @]))

\* One iteration of the loop over page_order; acc is Ok(new_doc) or the error
\* the loop has returned with.
SavePage(doc, acc, page_num, rotations, deleted_pages) ==
  IF ~acc.ok THEN acc
  ELSE IF page_num \in deleted_pages THEN acc
  ELSE LET pages == get_pages(doc) IN
       IF page_num \notin DOMAIN pages THEN acc
       ELSE LET page == get_object(doc, pages[page_num]) IN
            IF ~page.ok THEN Err(page.err)
            ELSE Ok(InsertNew(acc.value,
                              ApplyRotation(page.value, page_num, rotations)))

RECURSIVE SavePages(_, _, _, _, _)
SavePages(doc, acc, page_order, rotations, deleted_pages) ==
  IF page_order = <<>> THEN acc
  ELSE SavePages(doc,
                 SavePage(doc, acc, Head(page_order), rotations, deleted_pages),
                 Tail(page_order), rotations, deleted_pages)

\* The document save_pdf builds from a loaded source.
SaveDocument(doc, page_order, rotations, deleted_pages) ==
  SavePages(doc, Ok(CopyInfo(doc, DocumentWithVersion)),
            page_order, rotations, deleted_pages)

\* save_pdf: the result returned, and the file system it leaves.
save_pdf(fs, path, output_path, page_order, rotations, deleted_pages) ==
  LET loaded == DocumentLoad(fs, path) IN
  IF ~loaded.ok THEN [result |-> Err(loaded.err), files |-> fs]
  ELSE LET built == SaveDocument(loaded.value, page_order, rotations, deleted_pages) IN
       IF ~built.ok THEN [result |-> Err(built.err), files |-> fs]
       ELSE [result |-> Ok(<<>>),
             files |-> [fs EXCEPT ![output_path] = DocumentSave(built.value)]]

(***************************************************************************)
(* merge_pdfs.                                                             *)
(***************************************************************************)
RECURSIVE CopyPages(_, _, _)
\* The inner loop: every page of doc, in page order, inserted under a new id.
CopyPages(merged_doc, doc, page_ids) ==
  IF page_ids = <<>> THEN merged_doc
  ELSE LET page == get_object(doc, Head(page_ids)) IN
       CopyPages(IF page.ok THEN InsertNew(merged_doc, page.value) ELSE merged_doc,
                 doc, Tail(page_ids))

RECURSIVE MergeRest(_, _, _)
\* The outer loop over paths.iter().skip(1); a failed load returns the error.
MergeRest(fs, acc, paths) ==
  IF ~acc.ok \/ paths = <<>> THEN acc
  ELSE LET loaded == DocumentLoad(fs, Head(paths)) IN
       IF ~loaded.ok THEN Err(loaded.err)
       ELSE MergeRest(fs,
                      Ok(CopyPages(acc.value, loaded.value, get_pages(loaded.value))),
                      Tail(paths))

\* merge_pdfs saving the first document before the later sources are loaded.
MergeSavingFirstEarly(fs, paths, output_path) ==
  IF paths = <<>> THEN [result |-> Err("No PDFs to merge"), files |-> fs]
  ELSE LET first == DocumentLoad(fs, paths[1]) IN
       IF ~first.ok THEN [result |-> Err(first.err), files |-> fs]
       ELSE LET early == [fs EXCEPT ![output_path] = DocumentSave(first.value)]
                merged == MergeRest(fs, first, Tail(paths))
            IN IF ~merged.ok THEN [result |-> Err(merged.err), files |-> early]
               ELSE [result |-> Ok(<<>>),
                     files |-> [fs EXCEPT ![output_path] = DocumentSave(merged.value)]]

merge_pdfs(fs, paths, output_path) ==
  IF paths = <<>> THEN [result |-> Err("No PDFs to merge"), files |-> fs]
  ELSE LET first == DocumentLoad(fs, paths[1]) IN
       IF ~first.ok THEN [result |-> Err(first.err), files |-> fs]
       ELSE LET merged == MergeRest(fs, first, Tail(paths)) IN
            IF ~merged.ok THEN [result |-> Err(merged.err), files |-> fs]
            ELSE [result |-> Ok(<<>>),
                  files |-> [fs EXCEPT ![output_path] = DocumentSave(merged.value)]]

(***************************************************************************)
(* The commands as actions.  req is the last invocation, resp its result.  *)
(***************************************************************************)
NoRotations == [p \in {} |-> 0]

Request(op) ==
  [op |-> op, path |-> "", paths |-> <<>>, output_path |-> "",
   page_order |-> <<>>, rotations |-> NoRotations, deleted_pages |-> {}]

SeqsUpTo(S, n) == UNION {[1..k -> S] : k \in 0..n}

PageNums == 0..MaxPageNum
PageOrders == SeqsUpTo(PageNums, MaxOrderLen)
RotationValues == {0, 90, 450, -90}
\* Overrides and deletions are drawn for the page numbers every existing
\* source has.
EditedPages == {1, 2}
RotationMaps ==
  {NoRotations} \cup {(p :> r) : p \in EditedPages, r \in RotationValues}
DeletedSets == SUBSET EditedPages
PathLists == SeqsUpTo(SourcePaths, MaxPaths)

\* The arguments after path are not read when the load of path fails: one
\* representative invocation covers that return.
SaveInputs ==
  {<<p, o, r, d>> : p \in {q \in SourcePaths : InitFiles[q].exists},
                    o \in PageOrders, r \in RotationMaps, d \in DeletedSets}
  \cup {<<p, <<1>>, NoRotations, {}>> : p \in {q \in SourcePaths : ~InitFiles[q].exists}}

Init ==
  /\ files = InitFiles
  /\ req = Request("none")
  /\ resp = Ok(<<>>)

LoadPdf(path) ==
  /\ req' = [Request("load_pdf") EXCEPT !.path = path]
  /\ resp' = load_pdf(files, path)
  /\ UNCHANGED files

\* save_pdf never reads the output path, so the search takes its invocations
\* from the states where the output has not been written yet; merge_pdfs and
\* load_pdf are invoked in every state.
SavePdf(path, page_order, rotations, deleted_pages) ==
  LET r == save_pdf(files, path, OutputPath, page_order, rotations, deleted_pages) IN
  /\ ~files[OutputPath].exists
  /\ req' = [Request("save_pdf") EXCEPT !.path = path, !.output_path = OutputPath,
                                        !.page_order = page_order,
                                        !.rotations = rotations,
                                        !.deleted_pages = deleted_pages]
  /\ resp' = r.result
  /\ files' = r.files

MergePdfs(paths) ==
  LET r == merge_pdfs(files, paths, OutputPath) IN
  /\ req' = [Request("merge_pdfs") EXCEPT !.paths = paths, !.output_path = OutputPath]
  /\ resp' = r.result
  /\ files' = r.files

Next ==
  \/ \E path \in AllPaths : LoadPdf(path)
  \/ \E a \in SaveInputs : SavePdf(a[1], a[2], a[3], a[4])
  \/ \E paths \in PathLists : MergePdfs(paths)

Spec == Init /\ [][Next]_vars

(***************************************************************************)
(* Vocabulary of the properties.                                           *)
(***************************************************************************)
\* The source files are never written: the document a command loaded from
\* a source path is the one the path still holds.
Loaded(path) == DocumentLoad(files, path).value
OutDoc == DocumentLoad(files, OutputPath).value

PageCount(doc) == Len(get_pages(doc))
PageObject(doc, page_num) == doc.objects[get_pages(doc)[page_num]]
PageObjects(doc) == [i \in 1..PageCount(doc) |-> PageObject(doc, i)]

\* A page dictionary with its Rotate entry left out of the comparison.
SansRotate(obj) == [obj EXCEPT !.Rotate = <<>>]

\* page_order without the entries that are deleted.
Kept(page_order, deleted_pages) ==
  SelectSeq(page_order, LAMBDA p : p \notin deleted_pages)

SaveDone == req.op = "save_pdf" /\ resp.ok
MergeDone == req.op = "merge_pdfs" /\ resp.ok
LoadDone == req.op = "load_pdf" /\ resp.ok

ValidOrder ==
  \A i \in DOMAIN req.page_order :
     req.page_order[i] \in 1..PageCount(Loaded(req.path))

(***************************************************************************)
(* C4: save_pdf with every page_order entry a page number of the source    *)
(* emits exactly page_order without its deleted entries, in order: the     *)
(* output store holds one leaf per kept occurrence, under the fresh ids    *)
(* 1, 2, ... in emission order, each the source page of that number (up to *)
(* Rotate), and no leaf of the output is a deleted page.                   *)
(***************************************************************************)
C4_SaveEmitsKeptOrder ==
  (SaveDone /\ ValidOrder) =>
    LET kept == Kept(req.page_order, req.deleted_pages)
        src == Loaded(req.path)
        out == files[OutputPath]
    IN /\ DOMAIN out.objects = 1..Len(kept)
       /\ \A i \in 1..Len(kept) :
            SansRotate(out.objects[i]) = SansRotate(PageObject(src, kept[i]))
       /\ \A d \in req.deleted_pages \cap (1..PageCount(src)) :
            \A id \in DOMAIN out.objects :
               SansRotate(out.objects[id]) # SansRotate(PageObject(src, d))

\* A save whose page_order holds a deleted entry and a kept one, with a
\* rotation override on the kept page.
C4_Witness ==
  /\ SaveDone /\ ValidOrder
  /\ Len(req.page_order) = 2
  /\ req.page_order[1] \in req.deleted_pages
  /\ req.page_order[2] \notin req.deleted_pages
  /\ req.page_order[2] \in DOMAIN req.rotations
  /\ DOMAIN files[OutputPath].objects = {1}

(***************************************************************************)
(* C10: merge_pdfs with an empty list fails with the empty-input error,    *)
(* and a merge_pdfs that returns an error (empty input, or a source that   *)
(* fails to load) leaves every file, the output path included, as it was.  *)
(***************************************************************************)
C10_FailedMergeWritesNothing ==
  [][/\ (req'.op = "merge_pdfs" /\ req'.paths = <<>>) =>
          (~resp'.ok /\ resp'.err = "No PDFs to merge")
     /\ (req'.op = "merge_pdfs" /\ ~resp'.ok) => files' = files]_vars

\* A merge that failed on its second source while the output path holds an
\* earlier result.
C10_Witness ==
  /\ req.op = "merge_pdfs" /\ ~resp.ok
  /\ Len(req.paths) = 2
  /\ files[req.paths[1]].exists /\ ~files[req.paths[2]].exists
  /\ files[OutputPath].exists

(***************************************************************************)
(* C1: after merge_pdfs the pages reachable from the output's catalog are  *)
(* the concatenation of the sources' page sequences, in source-list order, *)
(* n1 + ... + nk of them, and every copied page went under an id no object *)
(* of the destination store already had.                                   *)
(***************************************************************************)
RECURSIVE ConcatPages(_)
ConcatPages(paths) ==
  IF paths = <<>> THEN <<>>
  ELSE PageObjects(Loaded(Head(paths))) \o ConcatPages(Tail(paths))

C1_MergeConcatenatesPages ==
  MergeDone =>
    LET first == Loaded(req.paths[1])
        expected == ConcatPages(req.paths)
    IN /\ PageCount(OutDoc) = Len(expected)
       /\ PageObjects(OutDoc) = expected
       /\ Cardinality(DOMAIN OutDoc.objects) =
            Cardinality(DOMAIN first.objects) + Len(ConcatPages(Tail(req.paths)))

(***************************************************************************)
(* C2: after save_pdf the output store holds a Pages node, reachable from  *)
(* the root catalog, whose Kids reference every emitted page leaf and      *)
(* whose Count is the number of emitted leaves.                            *)
(***************************************************************************)
Leaves(doc) == {id \in DOMAIN doc.objects : doc.objects[id].Type = "Page"}

RECURSIVE PagesNodesUnder(_, _, _)
\* The Pages nodes reachable from node id through Kids, id included.
PagesNodesUnder(doc, id, fuel) ==
  IF ~HasObject(doc, id) \/ doc.objects[id].Type # "Pages" THEN {}
  ELSE {id} \cup
       (IF fuel = 0 THEN {}
        ELSE UNION {PagesNodesUnder(doc, doc.objects[id].Kids[i], fuel - 1) :
                      i \in DOMAIN doc.objects[id].Kids})

ReachablePagesNodes(doc) ==
  IF ~HasObject(doc, doc.trailer.Root) THEN {}
  ELSE PagesNodesUnder(doc, doc.objects[doc.trailer.Root].Pages,
                       Cardinality(DOMAIN doc.objects))

C2_SaveBuildsPagesNode ==
  SaveDone =>
    \E id \in ReachablePagesNodes(OutDoc) :
       /\ Leaves(OutDoc) \subseteq
            {OutDoc.objects[id].Kids[i] : i \in DOMAIN OutDoc.objects[id].Kids}
       /\ OutDoc.objects[id].Count = Cardinality(Leaves(OutDoc))

(***************************************************************************)
(* C3: after merge_pdfs every reference held by a page copied from a later *)
(* source resolves, in the destination store, to a copied object (one      *)
(* under a fresh id) that came from the same source document.              *)
(***************************************************************************)
References(obj) == {obj.Parent, obj.Contents} \ {0}

C3_MergeRemapsReferences ==
  MergeDone =>
    LET first == Loaded(req.paths[1])
        copied == {id \in DOMAIN OutDoc.objects : id > first.max_id}
    IN \A id \in copied :
         \A ref \in References(OutDoc.objects[id]) :
            /\ ref \in copied
            /\ OutDoc.objects[ref].src = OutDoc.objects[id].src

(***************************************************************************)
(* C5: every emitted page whose page number has a rotation override r      *)
(* carries Rotate = r normalized into {0, 90, 180, 270} (modulo 360,       *)
(* negatives wrapped), whatever Rotate the source page carried; an absent  *)
(* Rotate counts as 0.                                                     *)
(***************************************************************************)
NormalizeRotation(r) == ((r % 360) + 360) % 360

RotateOf(obj) == IF obj.Rotate = <<>> THEN 0 ELSE obj.Rotate[1]

C5_RotationOverrideNormalized ==
  (SaveDone /\ ValidOrder) =>
    LET kept == Kept(req.page_order, req.deleted_pages)
        out == files[OutputPath]
    IN \A i \in DOMAIN kept \cap DOMAIN out.objects :
         kept[i] \in DOMAIN req.rotations =>
           RotateOf(out.objects[i]) = NormalizeRotation(req.rotations[kept[i]])

(***************************************************************************)
(* C6: save_pdf fails when page_order holds an entry that is not deleted   *)
(* and is not a page number of the source.                                 *)
(***************************************************************************)
C6_UnknownPageNumberFails ==
  (/\ req.op = "save_pdf"
   /\ DocumentLoad(files, req.path).ok
   /\ \E i \in DOMAIN req.page_order :
         /\ req.page_order[i] \notin req.deleted_pages
         /\ req.page_order[i] \notin 1..PageCount(Loaded(req.path)))
  => ~resp.ok

(***************************************************************************)
(* C7: the size load_pdf reports for a page comes from the MediaBox of the *)
(* leaf, else of its nearest ancestor that defines one, else the default.  *)
(* Stated for the pages whose resolved MediaBox is four numbers with       *)
(* non-negative extents.                                                   *)
(***************************************************************************)
RECURSIVE InheritedMediaBox(_, _, _)
InheritedMediaBox(doc, id, fuel) ==
  IF ~HasObject(doc, id) THEN <<>>
  ELSE IF doc.objects[id].MediaBox # <<>> THEN doc.objects[id].MediaBox
  ELSE IF fuel = 0 THEN <<>>
  ELSE InheritedMediaBox(doc, doc.objects[id].Parent, fuel - 1)

ResolvedMediaBox(doc, page_num) ==
  InheritedMediaBox(doc, get_pages(doc)[page_num], Cardinality(DOMAIN doc.objects))

IsNumber(c) == c.kind \in {"Integer", "Real"}

InvalidMediaBox(box) ==
  \/ Len(box) < 4
  \/ \E i \in 1..4 : ~IsNumber(box[i])
  \/ box[3].val < box[1].val
  \/ box[4].val < box[2].val

ResolvedSize(doc, page_num) ==
  LET box == ResolvedMediaBox(doc, page_num) IN
  IF box = <<>> THEN [width |-> DefaultWidth, height |-> DefaultHeight]
  ELSE [width |-> box[3].val - box[1].val, height |-> box[4].val - box[2].val]

C7_SizeInheritedFromAncestors ==
  LoadDone =>
    LET doc == Loaded(req.path) IN
    \A i \in 1..PageCount(doc) :
       (ResolvedMediaBox(doc, i) = <<>> \/ ~InvalidMediaBox(ResolvedMediaBox(doc, i))) =>
          /\ resp.value.pages[i].width = ResolvedSize(doc, i).width
          /\ resp.value.pages[i].height = ResolvedSize(doc, i).height

(***************************************************************************)
(* C8: when the output file is what save_pdf writes for a loadable source  *)
(* under the identity instructions (page_order 1..n, no rotations, no      *)
(* deletions), load_pdf of the output reports the page_count and the       *)
(* per-page width, height and rotation that load_pdf of the source does.   *)
(***************************************************************************)
IdentityOrder(doc) == [i \in 1..PageCount(doc) |-> i]

IdentitySave(path) ==
  save_pdf(files, path, OutputPath, IdentityOrder(Loaded(path)), NoRotations, {})

C8_IdentityRoundTrip ==
  (req.op = "load_pdf" /\ req.path = OutputPath) =>
    \A p \in SourcePaths :
       (/\ load_pdf(files, p).ok
        /\ files[OutputPath] = IdentitySave(p).files[OutputPath])
       => /\ resp.ok
          /\ resp.value.page_count = load_pdf(files, p).value.page_count
          /\ resp.value.pages = load_pdf(files, p).value.pages

(***************************************************************************)
(* C9: load_pdf fails when a page's own MediaBox is present and invalid (a *)
(* component that is not a number, or a negative extent), and a page       *)
(* summary it returns never has a negative width or height.                *)
(***************************************************************************)
C9_InvalidMediaBoxIsAnError ==
  (req.op = "load_pdf" /\ DocumentLoad(files, req.path).ok) =>
    LET doc == Loaded(req.path) IN
    /\ (\E i \in 1..PageCount(doc) :
          /\ PageObject(doc, i).MediaBox # <<>>
          /\ InvalidMediaBox(PageObject(doc, i).MediaBox)) => ~resp.ok
    /\ resp.ok => \A i \in 1..resp.value.page_count :
                     resp.value.pages[i].width >= 0 /\ resp.value.pages[i].height >= 0

====
